---------------------------- MODULE Spec2Model ----------------------------
(***************************************************************************)
(* RC plane designer: the interactive calculator (src/plane_designer.py)   *)
(* and the batch calculator (src/test.py), as one state machine.  A run    *)
(* is one execution of one of the two programs, chosen in Init.            *)
(*                                                                         *)
(* Numbers.  A Python float is modelled as a record [k, n, d]:             *)
(*   k = "fin"  the rational n/d in lowest terms, d > 0                    *)
(*   k = "nan"  IEEE not-a-number (float("nan"), inf - inf, ...)           *)
(*   k = "inf"  IEEE infinity of sign n                                    *)
(*   k = "str"  a JSON string where a number was expected (batch input)    *)
(*   k = an exception name: the evaluation raised it (ZeroDivisionError,   *)
(*       ValueError, TypeError); it propagates through every operation,    *)
(*       as the exception unwinds the expression.                          *)
(* Arithmetic on finite values is exact: binary64 rounding of the last     *)
(* bit is abstracted, everything else (division by zero raising, NaN and   *)
(* infinity arithmetic and comparisons) follows Python.                    *)
(***************************************************************************)
EXTENDS Integers, Sequences, FiniteSets, TLC

\* ------------------------------------------------------------------------
\* Bounds of the model
\* ------------------------------------------------------------------------

\* Rejected entries one get_float call may see before the model stops
\* offering bad entries (the code's loop is unbounded).
MaxRejects == 2

\* math.sqrt / np.sqrt are computed to 1/SqrtScale (exactly on perfect squares).
SqrtScale == 100

\* ------------------------------------------------------------------------
\* Python float arithmetic
\* ------------------------------------------------------------------------

Abs(x) == IF x < 0 THEN -x ELSE x

RECURSIVE GCD(_, _)
GCD(a, b) == IF b = 0 THEN a ELSE GCD(b, a % b)

Val(kind, num, den) == [k |-> kind, n |-> num, d |-> den]

\* The rational num/den (den # 0) in lowest terms.
Fin(num, den) ==
    LET g == GCD(Abs(num), Abs(den))
        s == IF den < 0 THEN -1 ELSE 1
    IN  Val("fin", s * (num \div g), Abs(den) \div g)

I(num) == Val("fin", num, 1)

NaN == Val("nan", 0, 1)
PosInf == Val("inf", 1, 1)
Raised(exc) == Val(exc, 0, 1)

ExceptionNames == {"ZeroDivisionError", "ValueError", "TypeError", "KeyError"}

IsRaised(v) == v.k \in ExceptionNames
IsFin(v) == v.k = "fin"
IsNaN(v) == v.k = "nan"
IsInf(v) == v.k = "inf"

Sign(v) == IF v.n > 0 THEN 1 ELSE IF v.n < 0 THEN -1 ELSE 0

\* What a binary operation yields before looking at the numbers: the first
\* exception raised (left operand first), then TypeError for a str operand.
Unwind(a, b, result) ==
    IF IsRaised(a) THEN a
    ELSE IF IsRaised(b) THEN b
    ELSE IF a.k = "str" \/ b.k = "str" THEN Raised("TypeError")
    ELSE result

Neg(a) == IF a.k \in {"fin", "inf"} THEN Val(a.k, -a.n, a.d) ELSE a

Add(a, b) ==
    Unwind(a, b,
        IF IsNaN(a) \/ IsNaN(b) THEN NaN
        ELSE IF IsInf(a) /\ IsInf(b) THEN (IF a.n = b.n THEN a ELSE NaN)
        ELSE IF IsInf(a) THEN a
        ELSE IF IsInf(b) THEN b
        ELSE LET g == GCD(a.d, b.d)
             IN  Fin(a.n * (b.d \div g) + b.n * (a.d \div g), (a.d \div g) * b.d))

Sub(a, b) == Add(a, Neg(b))

Mul(a, b) ==
    Unwind(a, b,
        IF IsNaN(a) \/ IsNaN(b) THEN NaN
        ELSE IF IsInf(a) \/ IsInf(b)
             THEN (IF Sign(a) * Sign(b) = 0 THEN NaN
                   ELSE Val("inf", Sign(a) * Sign(b), 1))
        ELSE LET g1 == GCD(Abs(a.n), b.d)
                 g2 == GCD(Abs(b.n), a.d)
             IN  Fin((a.n \div g1) * (b.n \div g2), (a.d \div g2) * (b.d \div g1)))

\* Python's true division: a zero divisor raises, whatever the dividend.
Div(a, b) ==
    Unwind(a, b,
        IF IsFin(b) /\ b.n = 0 THEN Raised("ZeroDivisionError")
        ELSE IF IsNaN(a) \/ IsNaN(b) THEN NaN
        ELSE IF IsInf(a) /\ IsInf(b) THEN NaN
        ELSE IF IsInf(a) THEN Val("inf", Sign(a) * Sign(b), 1)
        ELSE IF IsInf(b) THEN I(0)
        ELSE Mul(a, Fin(b.d, b.n)))

\* x ** 2
Sq(a) == Mul(a, a)

\* IEEE comparisons: every comparison with NaN is false.
Lt(a, b) ==
    /\ a.k \in {"fin", "inf"}
    /\ b.k \in {"fin", "inf"}
    /\ IF IsInf(a) THEN (a.n < 0 /\ ~(IsInf(b) /\ b.n < 0))
       ELSE IF IsInf(b) THEN b.n > 0
       ELSE a.n * b.d < b.n * a.d

Le(a, b) ==
    /\ a.k \in {"fin", "inf"}
    /\ b.k \in {"fin", "inf"}
    /\ (a = b \/ Lt(a, b))

Gt(a, b) == Lt(b, a)
Ge(a, b) == Le(b, a)

\* Largest r in lo..hi with r * r <= x (lo * lo <= x < (hi + 1) * (hi + 1)).
RECURSIVE ISqrtIn(_, _, _)
ISqrtIn(x, lo, hi) ==
    IF lo >= hi THEN lo
    ELSE LET mid == (lo + hi + 1) \div 2
         IN  IF mid * mid <= x THEN ISqrtIn(x, mid, hi) ELSE ISqrtIn(x, lo, mid - 1)

ISqrt(x) == ISqrtIn(x, 0, 46340)

IsSquare(x) == ISqrt(x) * ISqrt(x) = x

\* The square root of a finite value >= 0.
SqrtFin(a) ==
    IF IsSquare(a.n) /\ IsSquare(a.d) THEN Fin(ISqrt(a.n), ISqrt(a.d))
    ELSE Fin(ISqrt((a.n * SqrtScale * SqrtScale) \div a.d), SqrtScale)

\* math.sqrt: a negative argument raises ValueError (math domain error).
MathSqrt(a) ==
    IF IsRaised(a) THEN a
    ELSE IF a.k = "str" THEN Raised("TypeError")
    ELSE IF IsNaN(a) THEN NaN
    ELSE IF IsInf(a) THEN (IF a.n > 0 THEN PosInf ELSE Raised("ValueError"))
    ELSE IF a.n < 0 THEN Raised("ValueError")
    ELSE SqrtFin(a)

\* np.sqrt: a negative argument yields nan (with a warning), no exception.
NpSqrt(a) ==
    IF IsRaised(a) THEN a
    ELSE IF a.k = "str" THEN Raised("TypeError")
    ELSE IF IsNaN(a) THEN NaN
    ELSE IF IsInf(a) THEN (IF a.n > 0 THEN PosInf ELSE NaN)
    ELSE IF a.n < 0 THEN NaN
    ELSE SqrtFin(a)

Pow10(e) == IF e = 0 THEN 1 ELSE IF e = 1 THEN 10 ELSE IF e = 2 THEN 100
            ELSE IF e = 3 THEN 1000 ELSE 10000

\* Long division: the quotient q and remainder r of (q * d + r) * 10^digits by d,
\* one decimal digit at a time.
RECURSIVE ScaledDiv(_, _, _, _)
ScaledDiv(q, r, d, digits) ==
    IF digits = 0 THEN [q |-> q, r |-> r]
    ELSE ScaledDiv(q * 10 + (r * 10) \div d, (r * 10) % d, d, digits - 1)

\* round(x, digits) and "{x:.<digits>f}": the nearest multiple of 10^-digits,
\* ties to even; nan and inf stay what they are.
Round(a, digits) ==
    IF ~IsFin(a) THEN a
    ELSE LET s == ScaledDiv(Abs(a.n) \div a.d, Abs(a.n) % a.d, a.d, digits)
             up == (2 * s.r > a.d) \/ (2 * s.r = a.d /\ s.q % 2 = 1)
             mag == IF up THEN s.q + 1 ELSE s.q
         IN  Fin(Sign(a) * mag, Pow10(digits))

\* ------------------------------------------------------------------------
\* State
\* ------------------------------------------------------------------------

VARIABLES
    variant,    \* which program runs: "interactive" or "batch"
    pc,         \* the statement the program is at
    fault,      \* the exception that ended the run, "none" while there is none
    raised_at,  \* the statement that raised it, "" while there is none
    console,    \* the result lines printed so far: a sequence of [tag, val]
    files,      \* the output files: name -> [st, body]
    rejects,    \* entries the running get_float call has rejected so far
    msg,        \* the last re-prompt message of the running get_float call
    inp,        \* interactive: the value each get_float call returned
    wing,       \* interactive: the record design_wing returned
    emp,        \* interactive: the locals / record of design_empennage
    fus,        \* interactive: the record design_fuselage returned
    cg,         \* interactive: the record cg_and_static_margin returned
    input_file, \* batch: the record in the JSON file (NoVal: the key is absent)
    data,       \* batch: the record load_input returned
    locals,     \* batch: the local variables of main
    results     \* batch: the results record of main

vars == <<variant, pc, fault, raised_at, console, files, rejects, msg,
          inp, wing, emp, fus, cg, input_file, data, locals, results>>

\* A field that holds nothing yet (a local not assigned, a key not present).
NoVal == Val("none", 0, 1)

Line(tag, val) == [tag |-> tag, val |-> val]

\* The first exception raised among the values of an evaluation, in order.
RECURSIVE FirstRaised(_)
FirstRaised(vs) ==
    IF vs = <<>> THEN "none"
    ELSE IF IsRaised(Head(vs)) THEN Head(vs).k
    ELSE FirstRaised(Tail(vs))

\* ------------------------------------------------------------------------
\* plane_designer.py: utility functions
\* ------------------------------------------------------------------------

\* float(raw): "" and non-numeric text raise ValueError; "nan" and "inf"
\* parse to the IEEE values; a decimal literal parses to its value.
ParseFloat(raw) ==
    IF raw.k \in {"empty", "text"} THEN Raised("ValueError") ELSE raw

Empty == Val("empty", 0, 1)
Text == Val("text", 0, 1)

\* One pass of get_float's loop on the entry raw: the value returned
\* (ok), or the message printed before the prompt is shown again.
get_float(raw, min_val, max_val, default) ==
    LET val == IF raw = Empty /\ default # NoVal THEN default ELSE ParseFloat(raw)
    IN  IF IsRaised(val)
        THEN [ok |-> FALSE, val |-> NoVal, msg |-> "Please enter a numeric value."]
        ELSE IF (min_val # NoVal /\ Lt(val, min_val)) \/ (max_val # NoVal /\ Gt(val, max_val))
        THEN [ok |-> FALSE, val |-> NoVal,
              msg |-> IF min_val # NoVal /\ max_val # NoVal THEN "Enter a value between min and max."
                      ELSE IF min_val # NoVal THEN "Enter a value >= min."
                      ELSE "Enter a value <= max."]
        ELSE [ok |-> TRUE, val |-> val, msg |-> ""]

mm_to_m(x_mm) == Div(x_mm, I(1000))
mm2_to_m2(x_mm2) == Div(x_mm2, I(1000000))

fmt_mm(x) == Round(x, 3)
fmt_m(x_mm) == Round(mm_to_m(x_mm), 3)
fmt_mm2(x) == Round(x, 3)
fmt_m2(x_mm2) == Round(mm2_to_m2(x_mm2), 4)

\* ------------------------------------------------------------------------
\* plane_designer.py: design functions
\* ------------------------------------------------------------------------

WingFields == {"span", "AR", "taper_ratio", "wing_area", "MAC", "c_root", "c_tip"}

\* design_wing with the denominator of MAC left unsquared: a faulty variant
\* that the rectangular-wing property C3 must tell from design_wing.
design_wing_unsquared(span, AR, taper_ratio) ==
    LET wing_area == Div(Sq(span), AR)
        c_root == Div(Mul(I(2), wing_area), Mul(span, Add(I(1), taper_ratio)))
        c_tip == Mul(taper_ratio, c_root)
        MAC == Mul(Div(Mul(I(4), wing_area), Mul(I(3), span)),
                   Div(Add(Add(I(1), taper_ratio), Sq(taper_ratio)),
                       Add(I(1), taper_ratio)))
    IN  [span |-> span, AR |-> AR, taper_ratio |-> taper_ratio,
         wing_area |-> wing_area, MAC |-> MAC, c_root |-> c_root, c_tip |-> c_tip]

\* The arithmetic of design_wing on the three values entered.
design_wing(span, AR, taper_ratio) ==
    LET wing_area == Div(Sq(span), AR)
        c_root == Div(Mul(I(2), wing_area), Mul(span, Add(I(1), taper_ratio)))
        c_tip == Mul(taper_ratio, c_root)
        MAC == Mul(Div(Mul(I(4), wing_area), Mul(I(3), span)),
                   Div(Add(Add(I(1), taper_ratio), Sq(taper_ratio)),
                       Sq(Add(I(1), taper_ratio))))
    IN  [span |-> span, AR |-> AR, taper_ratio |-> taper_ratio,
         wing_area |-> wing_area, MAC |-> MAC, c_root |-> c_root, c_tip |-> c_tip]

\* The result lines design_wing prints.
WingLines(w) ==
    << Line("Span (b) mm", fmt_mm(w.span)),
       Line("Aspect Ratio (AR)", Round(w.AR, 3)),
       Line("Wing Area (S) mm2", fmt_mm2(w.wing_area)),
       Line("Wing Area (S) m2", fmt_m2(w.wing_area)),
       Line("Mean Aero Chord mm", fmt_mm(w.MAC)),
       Line("Mean Aero Chord m", fmt_m(w.MAC)),
       Line("Root Chord (Cr) mm", fmt_mm(w.c_root)),
       Line("Tip Chord (Ct) mm", fmt_mm(w.c_tip)) >>

\* The horizontal stabilizer's geometry, computed once its three values are in.
hs_geometry(wing_area, percent_hs, AR_hs, taper_hs) ==
    LET S_hs == Mul(Div(percent_hs, I(100)), wing_area)
        b_hs == MathSqrt(Mul(AR_hs, S_hs))
        c_root_hs == Div(Mul(I(2), S_hs), Mul(b_hs, Add(I(1), taper_hs)))
        c_tip_hs == Mul(taper_hs, c_root_hs)
    IN  [S |-> S_hs, span |-> b_hs, root |-> c_root_hs, tip |-> c_tip_hs]

\* The vertical stabilizer's geometry.
vs_geometry(wing_area, percent_vs, AR_vs, taper_vs) ==
    LET S_vs == Mul(Div(percent_vs, I(100)), wing_area)
        b_vs == MathSqrt(Mul(AR_vs, S_vs))
        c_root_vs == Div(Mul(I(2), S_vs), Mul(b_vs, Add(I(1), taper_vs)))
        c_tip_vs == Mul(taper_vs, c_root_vs)
    IN  [S |-> S_vs, span |-> b_vs, root |-> c_root_vs, tip |-> c_tip_vs]

\* S_elev and S_rudder.
control_area(percent, S_tail) == Mul(Div(percent, I(100)), S_tail)

NoSurface == [S |-> NoVal, span |-> NoVal, root |-> NoVal, tip |-> NoVal,
              control |-> NoVal, percent |-> NoVal, percent_control |-> NoVal]

NoEmpennage == [HS |-> NoSurface, VS |-> NoSurface]

\* The result lines design_empennage prints.
EmpennageLines(e) ==
    << Line("HS Area mm2", fmt_mm2(e.HS.S)),
       Line("HS Area m2", fmt_m2(e.HS.S)),
       Line("HS Span mm", fmt_mm(e.HS.span)),
       Line("HS Root Cr mm", fmt_mm(e.HS.root)),
       Line("HS Tip Ct mm", fmt_mm(e.HS.tip)),
       Line("Elevator mm2", fmt_mm2(e.HS.control)),
       Line("Elevator m2", fmt_m2(e.HS.control)),
       Line("VS Area mm2", fmt_mm2(e.VS.S)),
       Line("VS Area m2", fmt_m2(e.VS.S)),
       Line("VS Span mm", fmt_mm(e.VS.span)),
       Line("VS Root Cr mm", fmt_mm(e.VS.root)),
       Line("VS Tip Ct mm", fmt_mm(e.VS.tip)),
       Line("Rudder mm2", fmt_mm2(e.VS.control)),
       Line("Rudder m2", fmt_m2(e.VS.control)) >>

design_fuselage(span, percent_fus_len, percent_fus_h) ==
    LET fus_length == Mul(Div(percent_fus_len, I(100)), span)
        fus_height == Mul(Div(percent_fus_h, I(100)), fus_length)
    IN  [length |-> fus_length, height |-> fus_height,
         percent_len |-> percent_fus_len, percent_h |-> percent_fus_h]

FuselageLines(f) ==
    << Line("Fuselage length mm", fmt_mm(f.length)),
       Line("Fuselage height mm", fmt_mm(f.height)) >>

\* cg_and_static_margin with the margin taken as CG - NP: a faulty variant
\* that the static-margin property C5 must tell from cg_and_static_margin.
cg_and_static_margin_reversed(MAC_mm, NP_percent, CG_percent) ==
    LET SM == Sub(CG_percent, NP_percent)
    IN  [NP_percent |-> NP_percent, CG_percent |-> CG_percent, SM_percent |-> SM,
         NP_mm |-> Mul(Div(NP_percent, I(100)), MAC_mm),
         CG_mm |-> Mul(Div(CG_percent, I(100)), MAC_mm)]

\* The record cg_and_static_margin returns.
cg_and_static_margin(MAC_mm, NP_percent, CG_percent) ==
    LET SM == Sub(NP_percent, CG_percent)
    IN  [NP_percent |-> NP_percent, CG_percent |-> CG_percent, SM_percent |-> SM,
         NP_mm |-> Mul(Div(NP_percent, I(100)), MAC_mm),
         CG_mm |-> Mul(Div(CG_percent, I(100)), MAC_mm)]

\* The advisory cg_and_static_margin prints for a static margin, "" for none.
Advisory(SM) ==
    IF Le(SM, I(0)) THEN "WARNING: unstable"
    ELSE IF Lt(SM, I(5)) THEN "NOTE: low"
    ELSE IF Gt(SM, I(15)) THEN "NOTE: sluggish"
    ELSE ""

AdvisoryTags == {"WARNING: unstable", "NOTE: low", "NOTE: sluggish"}

CgLines(c, MAC_mm) ==
    << Line("Neutral Point %MAC", Round(c.NP_percent, 2)),
       Line("Neutral Point mm", fmt_mm(Mul(Div(c.NP_percent, I(100)), MAC_mm))),
       Line("CG location %MAC", Round(c.CG_percent, 2)),
       Line("CG location mm", fmt_mm(Mul(Div(c.CG_percent, I(100)), MAC_mm))),
       Line("Static Margin %MAC", Round(c.SM_percent, 2)) >>
    \o (IF Advisory(c.SM_percent) = "" THEN <<>>
        ELSE << Line(Advisory(c.SM_percent), NoVal) >>)

NoWing == [f \in WingFields |-> NoVal]
NoFuselage == [length |-> NoVal, height |-> NoVal, percent_len |-> NoVal, percent_h |-> NoVal]
NoCg == [NP_percent |-> NoVal, CG_percent |-> NoVal, SM_percent |-> NoVal,
         NP_mm |-> NoVal, CG_mm |-> NoVal]

\* ------------------------------------------------------------------------
\* plane_designer.py: exports
\* ------------------------------------------------------------------------

\* The value lines export_text writes to rc_plane_design.txt.
TextBody(w, e, f, c) ==
    << Line("Span (b) mm", Round(w.span, 3)),
       Line("Aspect Ratio (AR)", Round(w.AR, 3)),
       Line("Wing Area (S) mm2", Round(w.wing_area, 3)),
       Line("Wing Area (S) m2", Round(mm2_to_m2(w.wing_area), 4)),
       Line("MAC mm", Round(w.MAC, 3)),
       Line("MAC m", Round(mm_to_m(w.MAC), 3)),
       Line("Root Chord (Cr) mm", Round(w.c_root, 3)),
       Line("Tip Chord (Ct) mm", Round(w.c_tip, 3)),
       Line("HS Area mm2", Round(e.HS.S, 3)),
       Line("HS Span mm", Round(e.HS.span, 3)),
       Line("HS Root Chord mm", Round(e.HS.root, 3)),
       Line("HS Tip Chord mm", Round(e.HS.tip, 3)),
       Line("Elevator Area mm2", Round(e.HS.control, 3)),
       Line("VS Area mm2", Round(e.VS.S, 3)),
       Line("VS Span mm", Round(e.VS.span, 3)),
       Line("VS Root Chord mm", Round(e.VS.root, 3)),
       Line("VS Tip Chord mm", Round(e.VS.tip, 3)),
       Line("Rudder Area mm2", Round(e.VS.control, 3)),
       Line("Fuselage Length mm", Round(f.length, 3)),
       Line("Fuselage Height mm", Round(f.height, 3)),
       Line("Neutral Point %MAC", Round(c.NP_percent, 3)),
       Line("CG %MAC", Round(c.CG_percent, 3)),
       Line("Static Margin %MAC", Round(c.SM_percent, 3)),
       Line("NP position mm", Round(c.NP_mm, 3)),
       Line("CG position mm", Round(c.CG_mm, 3)) >>

\* The key/value rows export_pdf draws to rc_plane_design.pdf.
PdfBody(w, e, f, c) ==
    << Line("Span (mm)", Round(w.span, 3)),
       Line("Aspect Ratio (AR)", Round(w.AR, 3)),
       Line("Wing Area (mm2)", Round(w.wing_area, 3)),
       Line("Wing Area (m2)", Round(mm2_to_m2(w.wing_area), 4)),
       Line("Mean Aero Chord (MAC) (mm)", Round(w.MAC, 3)),
       Line("Root Chord (Cr) (mm)", Round(w.c_root, 3)),
       Line("Tip  Chord (Ct) (mm)", Round(w.c_tip, 3)),
       Line("HS Area (mm2)", Round(e.HS.S, 3)),
       Line("HS Span (mm)", Round(e.HS.span, 3)),
       Line("HS Root (mm)", Round(e.HS.root, 3)),
       Line("HS Tip (mm)", Round(e.HS.tip, 3)),
       Line("Elevator Area (mm2)", Round(e.HS.control, 3)),
       Line("VS Area (mm2)", Round(e.VS.S, 3)),
       Line("VS Span (mm)", Round(e.VS.span, 3)),
       Line("VS Root (mm)", Round(e.VS.root, 3)),
       Line("VS Tip (mm)", Round(e.VS.tip, 3)),
       Line("Rudder Area (mm2)", Round(e.VS.control, 3)),
       Line("Fuselage Length (mm)", Round(f.length, 3)),
       Line("Fuselage Height (mm)", Round(f.height, 3)),
       Line("Neutral Point (%MAC)", Round(c.NP_percent, 3)),
       Line("CG (%MAC)", Round(c.CG_percent, 3)),
       Line("Static Margin (%MAC)", Round(c.SM_percent, 3)),
       Line("NP position (mm from MAC LE)", Round(c.NP_mm, 3)),
       Line("CG position (mm from MAC LE)", Round(c.CG_mm, 3)) >>

\* Writing a file: "ok" leaves it complete with its body; an export can also
\* fail before the file is created ("open_failed": the file is as it was) or
\* while it is written ("write_failed": the file is left incomplete).
WriteOutcomes == {"ok", "open_failed", "write_failed"}

FileNames == {"rc_plane_design.txt", "rc_plane_design.pdf", "results.csv",
              "lift_curve.png", "drag_polar.png", "cg_vs_np.png", "design_report.pdf"}

NoFile == [st |-> "absent", body |-> <<>>]

WriteFile(fs, name, body, outcome) ==
    IF outcome = "ok" THEN [fs EXCEPT ![name] = [st |-> "complete", body |-> body]]
    ELSE IF outcome = "write_failed" THEN [fs EXCEPT ![name] = [st |-> "partial", body |-> <<>>]]
    ELSE fs

export_text(fs, w, e, f, c, outcome) ==
    WriteFile(fs, "rc_plane_design.txt", TextBody(w, e, f, c), outcome)

\* export_pdf writing under export_text's file name: a faulty variant that
\* the export property C10 must tell from export_pdf.
export_pdf_over_text(fs, w, e, f, c, outcome) ==
    WriteFile(fs, "rc_plane_design.txt", PdfBody(w, e, f, c), outcome)

export_pdf(fs, w, e, f, c, outcome) ==
    WriteFile(fs, "rc_plane_design.pdf", PdfBody(w, e, f, c), outcome)

\* ------------------------------------------------------------------------
\* plane_designer.py: main, one action per step
\* ------------------------------------------------------------------------

\* The statements of the interactive main in program order: every get_float
\* call by the name of the value it reads, every computation by its function.
Flow ==
    << "airfoil_input",
       "span", "AR", "taper_ratio", "design_wing",
       "percent_hs", "AR_hs", "taper_hs", "hs_geometry", "percent_elev",
       "percent_vs", "AR_vs", "taper_vs", "vs_geometry", "percent_rudder",
       "design_empennage",
       "percent_fus_len", "percent_fus_h", "design_fuselage",
       "NP_percent", "CG_percent", "cg_and_static_margin",
       "export_text", "export_pdf", "done" >>

NextPc(p) == Flow[(CHOOSE i \in 1..Len(Flow) : Flow[i] = p) + 1]

Bounds(lo, hi, dflt) == [min |-> lo, max |-> hi, default |-> dflt]

\* The min_val, max_val and default of each get_float call.
Prompt(p) ==
    CASE p = "span" -> Bounds(NoVal, NoVal, NoVal)
      [] p = "AR" -> Bounds(NoVal, NoVal, NoVal)
      [] p = "taper_ratio" -> Bounds(NoVal, NoVal, NoVal)
      [] p = "percent_hs" -> Bounds(I(18), I(20), NoVal)
      [] p = "AR_hs" -> Bounds(I(1), I(20), NoVal)
      [] p = "taper_hs" -> Bounds(Fin(5, 100), Fin(15, 10), NoVal)
      [] p = "percent_elev" -> Bounds(I(25), I(50), NoVal)
      [] p = "percent_vs" -> Bounds(I(9), I(10), NoVal)
      [] p = "AR_vs" -> Bounds(I(1), I(10), NoVal)
      [] p = "taper_vs" -> Bounds(Fin(5, 100), Fin(15, 10), NoVal)
      [] p = "percent_rudder" -> Bounds(I(25), I(50), NoVal)
      [] p = "percent_fus_len" -> Bounds(I(60), I(75), NoVal)
      [] p = "percent_fus_h" -> Bounds(I(10), I(15), NoVal)
      [] p = "NP_percent" -> Bounds(I(25), I(40), I(30))
      [] p = "CG_percent" -> Bounds(I(0), I(100), NoVal)

PromptNames ==
    {"span", "AR", "taper_ratio", "percent_hs", "AR_hs", "taper_hs", "percent_elev",
     "percent_vs", "AR_vs", "taper_vs", "percent_rudder", "percent_fus_len",
     "percent_fus_h", "NP_percent", "CG_percent"}

\* The entries the user may type at each prompt.
EntriesAt(p) ==
    CASE p = "span" -> {Text, I(0), I(600), I(1200)}
      [] p = "AR" -> {Empty, I(0), I(6), I(8), PosInf}
      [] p = "taper_ratio" -> {Text, I(-1), I(0), Fin(6, 10), I(1), NaN}
      [] p = "percent_hs" -> {Text, I(17), I(18), I(20), I(21), NaN}
      [] p = "AR_hs" -> {Empty, I(0), I(3), I(21)}
      [] p = "taper_hs" -> {Text, I(0), Fin(1, 2), I(1), I(2)}
      [] p = "percent_elev" -> {Text, I(24), I(25), I(51)}
      [] p = "percent_vs" -> {Empty, I(8), I(9), I(10), I(11)}
      [] p = "AR_vs" -> {Text, I(0), I(2), I(11)}
      [] p = "taper_vs" -> {Text, Fin(1, 2), I(2)}
      [] p = "percent_rudder" -> {Text, I(50), I(51)}
      [] p = "percent_fus_len" -> {Text, I(59), I(60), I(76)}
      [] p = "percent_fus_h" -> {Empty, I(9), I(15), I(16)}
      [] p = "NP_percent" -> {Empty, Text, I(24), I(40), I(41)}
      [] p = "CG_percent" -> {Text, I(-1), I(10), I(15), I(25), I(27), I(30),
                              I(35), I(101), NaN}

NoInputs == [p \in PromptNames |-> NoVal]

NoFiles == [f \in FileNames |-> NoFile]

\* An uncaught exception ends the run.
Crash(exc) ==
    /\ pc' = "crashed"
    /\ fault' = exc
    /\ raised_at' = pc

\* airfoil_input: any answer is taken; it only chooses the line printed.
AirfoilInput ==
    /\ variant = "interactive"
    /\ pc = "airfoil_input"
    /\ \E answer \in {"yes", "no"} :
           console' = console \o << Line(IF answer = "yes" THEN "Thank you for your input"
                                         ELSE "Thank you for not your input", NoVal) >>
    /\ pc' = NextPc(pc)
    /\ UNCHANGED <<variant, input_file, fault, raised_at, files, rejects, msg, inp, wing, emp, fus, cg, data, locals, results>>

\* One entry typed at the prompt of the running get_float call: the call
\* returns its value, or prints a message and prompts again.
GetFloat ==
    /\ variant = "interactive"
    /\ pc \in PromptNames
    /\ \E raw \in EntriesAt(pc) :
           LET r == get_float(raw, Prompt(pc).min, Prompt(pc).max, Prompt(pc).default)
           IN  IF r.ok
               THEN /\ inp' = [inp EXCEPT ![pc] = r.val]
                    /\ pc' = NextPc(pc)
                    /\ rejects' = 0
                    /\ msg' = ""
               ELSE /\ rejects < MaxRejects
                    /\ rejects' = rejects + 1
                    /\ msg' = r.msg
                    /\ UNCHANGED <<pc, inp>>
    /\ UNCHANGED <<variant, input_file, fault, raised_at, console, files, wing, emp, fus, cg, data, locals, results>>

\* Ctrl-C at a prompt: main's caller prints "Exiting." and exits with 0.
KeyboardInterrupt ==
    /\ variant = "interactive"
    /\ pc \in PromptNames \cup {"airfoil_input"}
    /\ pc' = "exited"
    /\ UNCHANGED <<variant, input_file, fault, raised_at, console, files, rejects, msg, inp, wing, emp, fus, cg,
                   data, locals, results>>

DesignWing ==
    /\ variant = "interactive"
    /\ pc = "design_wing"
    /\ LET w == design_wing(inp["span"], inp["AR"], inp["taper_ratio"])
           exc == FirstRaised(<<w.wing_area, w.c_root, w.c_tip, w.MAC>>)
       IN  IF exc # "none"
           THEN Crash(exc) /\ UNCHANGED <<wing, console>>
           ELSE /\ wing' = w
                /\ console' = console \o WingLines(w)
                /\ pc' = NextPc(pc)
                /\ UNCHANGED <<fault, raised_at>>
    /\ UNCHANGED <<variant, input_file, files, rejects, msg, inp, emp, fus, cg, data, locals, results>>

HsGeometry ==
    /\ variant = "interactive"
    /\ pc = "hs_geometry"
    /\ LET g == hs_geometry(wing.wing_area, inp["percent_hs"], inp["AR_hs"], inp["taper_hs"])
           exc == FirstRaised(<<g.S, g.span, g.root, g.tip>>)
       IN  IF exc # "none"
           THEN Crash(exc) /\ UNCHANGED emp
           ELSE /\ emp' = [emp EXCEPT !.HS = [@ EXCEPT !.S = g.S, !.span = g.span,
                                                       !.root = g.root, !.tip = g.tip,
                                                       !.percent = inp["percent_hs"]]]
                /\ pc' = NextPc(pc)
                /\ UNCHANGED <<fault, raised_at>>
    /\ UNCHANGED <<variant, input_file, console, files, rejects, msg, inp, wing, fus, cg, data, locals, results>>

VsGeometry ==
    /\ variant = "interactive"
    /\ pc = "vs_geometry"
    /\ LET g == vs_geometry(wing.wing_area, inp["percent_vs"], inp["AR_vs"], inp["taper_vs"])
           exc == FirstRaised(<<g.S, g.span, g.root, g.tip>>)
       IN  IF exc # "none"
           THEN Crash(exc) /\ UNCHANGED emp
           ELSE /\ emp' = [emp EXCEPT !.HS = [@ EXCEPT !.control =
                                                  control_area(inp["percent_elev"], emp.HS.S),
                                                  !.percent_control = inp["percent_elev"]],
                                      !.VS = [@ EXCEPT !.S = g.S, !.span = g.span,
                                                       !.root = g.root, !.tip = g.tip,
                                                       !.percent = inp["percent_vs"]]]
                /\ pc' = NextPc(pc)
                /\ UNCHANGED <<fault, raised_at>>
    /\ UNCHANGED <<variant, input_file, console, files, rejects, msg, inp, wing, fus, cg, data, locals, results>>

\* The end of design_empennage: S_rudder, the result lines, the record.
DesignEmpennage ==
    /\ variant = "interactive"
    /\ pc = "design_empennage"
    /\ LET e == [emp EXCEPT !.VS = [@ EXCEPT !.control =
                                        control_area(inp["percent_rudder"], emp.VS.S),
                                        !.percent_control = inp["percent_rudder"]]]
       IN  /\ emp' = e
           /\ console' = console \o EmpennageLines(e)
    /\ pc' = NextPc(pc)
    /\ UNCHANGED <<variant, input_file, fault, raised_at, files, rejects, msg, inp, wing, fus, cg, data, locals, results>>

DesignFuselage ==
    /\ variant = "interactive"
    /\ pc = "design_fuselage"
    /\ LET f == design_fuselage(wing.span, inp["percent_fus_len"], inp["percent_fus_h"])
       IN  /\ fus' = f
           /\ console' = console \o FuselageLines(f)
    /\ pc' = NextPc(pc)
    /\ UNCHANGED <<variant, input_file, fault, raised_at, files, rejects, msg, inp, wing, emp, cg, data, locals, results>>

CgAndStaticMargin ==
    /\ variant = "interactive"
    /\ pc = "cg_and_static_margin"
    /\ LET c == cg_and_static_margin(wing.MAC, inp["NP_percent"], inp["CG_percent"])
       IN  /\ cg' = c
           /\ console' = console \o CgLines(c, wing.MAC)
    /\ pc' = NextPc(pc)
    /\ UNCHANGED <<variant, input_file, fault, raised_at, files, rejects, msg, inp, wing, emp, fus, data, locals, results>>

ExportText ==
    /\ variant = "interactive"
    /\ pc = "export_text"
    /\ \E outcome \in WriteOutcomes :
           /\ files' = export_text(files, wing, emp, fus, cg, outcome)
           /\ IF outcome = "ok"
              THEN pc' = NextPc(pc) /\ UNCHANGED <<fault, raised_at>>
              ELSE Crash("OSError")
    /\ UNCHANGED <<variant, input_file, console, rejects, msg, inp, wing, emp, fus, cg, data, locals, results>>

ExportPdf ==
    /\ variant = "interactive"
    /\ pc = "export_pdf"
    /\ \E outcome \in WriteOutcomes :
           /\ files' = export_pdf(files, wing, emp, fus, cg, outcome)
           /\ IF outcome = "ok"
              THEN pc' = NextPc(pc) /\ UNCHANGED <<fault, raised_at>>
              ELSE Crash("OSError")
    /\ UNCHANGED <<variant, input_file, console, rejects, msg, inp, wing, emp, fus, cg, data, locals, results>>

\* ------------------------------------------------------------------------
\* test.py: the batch calculator
\* ------------------------------------------------------------------------

\* A JSON string value: id 0 is a string where a number is expected ("abc"),
\* id 1 is "9x4.5", id 2 is another propeller name.
StrVal(id) == Val("str", id, 1)

DefaultKeys == {"weight", "cl_max", "taper_ratio", "tail_taper_H", "tail_taper_V",
                "motor_kv", "battery_voltage", "propeller"}

Keys == {"wingspan", "aspect_ratio"} \cup DefaultKeys

DEFAULTS ==
    [weight |-> I(2), cl_max |-> Fin(14, 10), taper_ratio |-> I(1),
     tail_taper_H |-> I(1), tail_taper_V |-> I(1), motor_kv |-> I(1200),
     battery_voltage |-> Fin(111, 10), propeller |-> StrVal(1)]

\* load_input without the loop over DEFAULTS: a faulty variant that the
\* missing-key property C8 must tell from load_input.
load_input_unfilled(d) ==
    [key \in Keys |-> d[key]]

\* load_input on the record json.load returned (NoVal: the key is absent).
load_input(d) ==
    [key \in Keys |-> IF key \in DefaultKeys /\ d[key] = NoVal THEN DEFAULTS[key] ELSE d[key]]

\* data[key]
Lookup(d, key) == IF d[key] = NoVal THEN Raised("KeyError") ELSE d[key]

calc_wing_geometry(b, AR, taper_ratio) ==
    LET S == Div(Sq(b), AR)
        MAC == Div(S, b)
        C_root == Div(Mul(I(2), S), Mul(b, Add(I(1), taper_ratio)))
        C_tip == Mul(taper_ratio, C_root)
    IN  [S |-> S, MAC |-> MAC, C_root |-> C_root, C_tip |-> C_tip]

\* calc_tail_geometry without the factor 2 of the root chord: a faulty
\* variant that the trapezoid property C2 must tell from calc_tail_geometry.
calc_tail_geometry_halved(S_tail, span_tail, taper_ratio) ==
    LET C_root == Div(S_tail, Mul(span_tail, Add(I(1), taper_ratio)))
        C_tip == Mul(taper_ratio, C_root)
    IN  [C_root |-> C_root, C_tip |-> C_tip]

calc_tail_geometry(S_tail, span_tail, taper_ratio) ==
    LET C_root == Div(Mul(I(2), S_tail), Mul(span_tail, Add(I(1), taper_ratio)))
        C_tip == Mul(taper_ratio, C_root)
    IN  [C_root |-> C_root, C_tip |-> C_tip]

\* np.pi, to six decimals.
Pi == Fin(355, 113)

Half == Fin(1, 2)

calc_aerodynamics(rho, V, S, CL, CD0, AR, e) ==
    LET L == Mul(Mul(Mul(Mul(Half, rho), Sq(V)), S), CL)
        CD == Add(CD0, Div(Sq(CL), Mul(Mul(Pi, e), AR)))
        D == Mul(Mul(Mul(Mul(Half, rho), Sq(V)), S), CD)
    IN  [L |-> L, D |-> D, CD |-> CD]

stall_speed(W, rho, S, CLmax) == NpSqrt(Div(Mul(I(2), W), Mul(rho, S)))

stability(MAC, x_cg, x_np) ==
    [SM |-> Div(Sub(x_np, x_cg), MAC), x_ac |-> Mul(Fin(25, 100), MAC)]

tail_areas(S) == [SH |-> Mul(Fin(19, 100), S), SV |-> Mul(Fin(95, 1000), S)]

fuselage_dimensions(b) ==
    LET Lf == Mul(Fin(675, 1000), b)
        Hf == Mul(Fin(125, 1000), Lf)
        Wf == Mul(Fin(2, 10), Hf)
    IN  [Lf |-> Lf, Hf |-> Hf, Wf |-> Wf]

\* main, a section at a time.  Each section takes the locals assigned so far
\* (v) and returns them with its own added.

\* "Convert inputs to meters internally"
main_inputs(d) ==
    [b |-> Div(Lookup(d, "wingspan"), I(1000)),
     AR |-> Lookup(d, "aspect_ratio"),
     W |-> Mul(Lookup(d, "weight"), Fin(981, 100)),
     CLmax |-> Lookup(d, "cl_max"),
     taper_ratio |-> Lookup(d, "taper_ratio"),
     tail_taper_H |-> Lookup(d, "tail_taper_H"),
     tail_taper_V |-> Lookup(d, "tail_taper_V")]

\* "Wing geometry", "Tail areas"
main_wing(v) ==
    v @@ calc_wing_geometry(v.b, v.AR, v.taper_ratio)

main_areas(v) ==
    v @@ tail_areas(v.S) @@ fuselage_dimensions(v.b)

\* "Tail geometry with taper"
main_tails(v) ==
    v @@ [b_H |-> Mul(Fin(4, 10), v.b),
          b_V |-> v.Hf,
          tail_H |-> calc_tail_geometry(v.SH, Mul(Fin(4, 10), v.b), v.tail_taper_H),
          tail_V |-> calc_tail_geometry(v.SV, v.Hf, v.tail_taper_V)]

\* "Aerodynamics"
main_aero(v) ==
    v @@ [rho |-> Fin(1225, 1000), V |-> I(10), CD0 |-> Fin(2, 100), e |-> Fin(8, 10),
          aero |-> calc_aerodynamics(Fin(1225, 1000), I(10), v.S, v.CLmax, Fin(2, 100),
                                     v.AR, Fin(8, 10)),
          Vstall |-> stall_speed(v.W, Fin(1225, 1000), v.S, v.CLmax)]

\* "Stability"
main_stability(v) ==
    v @@ [x_cg |-> Mul(Fin(3, 10), v.MAC),
          x_np |-> Mul(Fin(4, 10), v.MAC),
          st |-> stability(v.MAC, Mul(Fin(3, 10), v.MAC), Mul(Fin(4, 10), v.MAC))]

\* "Convert all lengths to mm"
main_mm(v) ==
    v @@ [S_mm2 |-> Mul(v.S, I(1000000)), MAC_mm |-> Mul(v.MAC, I(1000)),
          C_root_mm |-> Mul(v.C_root, I(1000)), C_tip_mm |-> Mul(v.C_tip, I(1000)),
          Lf_mm |-> Mul(v.Lf, I(1000)), Hf_mm |-> Mul(v.Hf, I(1000)),
          Wf_mm |-> Mul(v.Wf, I(1000)),
          SH_mm2 |-> Mul(v.SH, I(1000000)), SV_mm2 |-> Mul(v.SV, I(1000000)),
          C_root_H_mm |-> Mul(v.tail_H.C_root, I(1000)),
          C_tip_H_mm |-> Mul(v.tail_H.C_tip, I(1000)),
          C_root_V_mm |-> Mul(v.tail_V.C_root, I(1000)),
          C_tip_V_mm |-> Mul(v.tail_V.C_tip, I(1000)),
          x_ac_mm |-> Mul(v.st.x_ac, I(1000)), x_cg_mm |-> Mul(v.x_cg, I(1000)),
          x_np_mm |-> Mul(v.x_np, I(1000))]

\* The locals of main when it reaches the results dictionary.
main_locals(d) ==
    main_mm(main_stability(main_aero(main_tails(main_areas(main_wing(main_inputs(d)))))))

\* Every value main computes, in the order it computes them.
main_order(v) ==
    << v.b, v.AR, v.W, v.CLmax, v.taper_ratio, v.S, v.MAC, v.C_root, v.C_tip,
       v.SH, v.SV, v.Lf, v.Hf, v.Wf, v.b_H, v.tail_H.C_root, v.tail_H.C_tip,
       v.tail_V.C_root, v.tail_V.C_tip, v.aero.L, v.aero.CD, v.aero.D, v.Vstall,
       v.x_cg, v.x_np, v.st.SM, v.st.x_ac >>

\* The results dictionary, in insertion order.
main_results(v) ==
    << Line("Wing Area (S) mm2", Round(v.S_mm2, 1)),
       Line("MAC mm", Round(v.MAC_mm, 1)),
       Line("Root Chord mm", Round(v.C_root_mm, 1)),
       Line("Tip Chord mm", Round(v.C_tip_mm, 1)),
       Line("Horizontal Tail Area SH mm2", Round(v.SH_mm2, 1)),
       Line("Vertical Tail Area SV mm2", Round(v.SV_mm2, 1)),
       Line("Horizontal Tail Root Chord mm", Round(v.C_root_H_mm, 1)),
       Line("Horizontal Tail Tip Chord mm", Round(v.C_tip_H_mm, 1)),
       Line("Vertical Tail Root Chord mm", Round(v.C_root_V_mm, 1)),
       Line("Vertical Tail Tip Chord mm", Round(v.C_tip_V_mm, 1)),
       Line("Fuselage Length mm", Round(v.Lf_mm, 1)),
       Line("Fuselage Height mm", Round(v.Hf_mm, 1)),
       Line("Fuselage Width mm", Round(v.Wf_mm, 1)),
       Line("Lift L (N)", Round(v.aero.L, 2)),
       Line("Drag D (N)", Round(v.aero.D, 2)),
       Line("Stall Speed Vstall (m/s)", Round(v.Vstall, 2)),
       Line("Static Margin", Round(v.st.SM, 3)),
       Line("Aerodynamic Center x_ac mm", Round(v.x_ac_mm, 1)),
       Line("CG Position mm", Round(v.x_cg_mm, 1)),
       Line("Neutral Point x_np mm", Round(v.x_np_mm, 1)) >>

\* The "key: val" lines generate_pdf writes for the input record.
RECURSIVE DataLines(_, _)
DataLines(d, ks) ==
    IF ks = {} THEN <<>>
    ELSE LET key == CHOOSE x \in ks : TRUE
         IN  (IF d[key] = NoVal THEN <<>> ELSE << Line(key, d[key]) >>)
             \o DataLines(d, ks \ {key})

\* generate_pdf: the inputs, the results, a page per chart that exists.
generate_pdf(fs, d, res, outcome) ==
    WriteFile(fs, "design_report.pdf",
              DataLines(d, Keys) \o res
              \o SelectSeq(<< Line("lift_curve.png", NoVal), Line("drag_polar.png", NoVal),
                              Line("cg_vs_np.png", NoVal) >>,
                           LAMBDA l : fs[l.tag].st # "absent"),
              outcome)

\* The charts: what each plot function draws, written by plt.savefig.
plot_lift_curve(fs, CLmax, outcome) ==
    WriteFile(fs, "lift_curve.png", << Line("CLmax", CLmax) >>, outcome)

plot_drag_polar(fs, AR, e, CD0, outcome) ==
    WriteFile(fs, "drag_polar.png", << Line("AR", AR), Line("e", e), Line("CD0", CD0) >>,
              outcome)

plot_cg_vs_np(fs, MAC, outcome) ==
    WriteFile(fs, "cg_vs_np.png",
              << Line("x_np", Mul(Fin(4, 10), MAC)), Line("CG Example", Mul(Fin(3, 10), MAC)) >>,
              outcome)

\* ------------------------------------------------------------------------
\* test.py: main, one action per step
\* ------------------------------------------------------------------------

BatchFlow ==
    << "load_input", "main", "print", "to_csv", "plot_lift_curve", "plot_drag_polar",
       "plot_cg_vs_np", "generate_pdf", "done" >>

BatchNextPc(p) == BatchFlow[(CHOOSE i \in 1..Len(BatchFlow) : BatchFlow[i] = p) + 1]

LoadInput ==
    /\ variant = "batch"
    /\ pc = "load_input"
    /\ data' = load_input(input_file)
    /\ pc' = BatchNextPc(pc)
    /\ UNCHANGED <<variant, input_file, fault, raised_at, console, files, rejects, msg, inp, wing, emp, fus, cg,
                   locals, results>>

\* main from the first read of the input record to the results dictionary.
MainStep(m) ==
    IF FirstRaised(main_order(m)) # "none"
    THEN Crash(FirstRaised(main_order(m))) /\ UNCHANGED <<locals, results>>
    ELSE /\ locals' = m
         /\ results' = main_results(m)
         /\ pc' = BatchNextPc(pc)
         /\ UNCHANGED <<fault, raised_at>>

Main ==
    /\ variant = "batch"
    /\ pc = "main"
    /\ MainStep(main_locals(data))
    /\ UNCHANGED <<variant, input_file, console, files, rejects, msg, inp, wing, emp, fus, cg, data>>

PrintResults ==
    /\ variant = "batch"
    /\ pc = "print"
    /\ console' = console \o results
    /\ pc' = BatchNextPc(pc)
    /\ UNCHANGED <<variant, input_file, fault, raised_at, files, rejects, msg, inp, wing, emp, fus, cg, data, locals,
                   results>>

\* A step of main that writes one file.
BatchWrite(step, fs) ==
    /\ variant = "batch"
    /\ pc = step
    /\ \E outcome \in WriteOutcomes :
           /\ files' = fs[outcome]
           /\ IF outcome = "ok"
              THEN pc' = BatchNextPc(pc) /\ UNCHANGED <<fault, raised_at>>
              ELSE Crash("OSError")
    /\ UNCHANGED <<variant, input_file, console, rejects, msg, inp, wing, emp, fus, cg, data, locals, results>>

ToCsv ==
    BatchWrite("to_csv", [o \in WriteOutcomes |-> WriteFile(files, "results.csv", results, o)])

PlotLiftCurve ==
    BatchWrite("plot_lift_curve",
               [o \in WriteOutcomes |-> plot_lift_curve(files, locals.CLmax, o)])

PlotDragPolar ==
    BatchWrite("plot_drag_polar",
               [o \in WriteOutcomes |->
                   plot_drag_polar(files, locals.AR, locals.e,
                                   locals.CD0, o)])

PlotCgVsNp ==
    BatchWrite("plot_cg_vs_np",
               [o \in WriteOutcomes |-> plot_cg_vs_np(files, locals.MAC_mm, o)])

GeneratePdf ==
    BatchWrite("generate_pdf",
               [o \in WriteOutcomes |-> generate_pdf(files, data, results, o)])

\* The input records of the batch runs: each key absent or one of a few values.
InputRecords ==
    [wingspan : {NoVal, I(0), I(600), I(1200), StrVal(0)},
     aspect_ratio : {NoVal, I(0), I(6), I(8)},
     weight : {NoVal, I(-1), I(3)},
     cl_max : {NoVal, Fin(12, 10)},
     taper_ratio : {NoVal, I(0), Fin(6, 10)},
     tail_taper_H : {NoVal, Fin(1, 2)},
     tail_taper_V : {NoVal, Fin(1, 2)},
     motor_kv : {NoVal, I(1000)},
     battery_voltage : {NoVal, Fin(148, 10)},
     propeller : {NoVal, StrVal(2)}]

NoData == [key \in Keys |-> NoVal]

InitInteractive ==
    /\ variant = "interactive"
    /\ pc = "airfoil_input"
    /\ input_file = NoData

InitBatch ==
    /\ variant = "batch"
    /\ pc = "load_input"
    /\ input_file \in InputRecords

Init ==
    /\ fault = "none"
    /\ raised_at = ""
    /\ data = NoData
    /\ console = <<>>
    /\ files = NoFiles
    /\ rejects = 0
    /\ msg = ""
    /\ inp = NoInputs
    /\ wing = NoWing
    /\ emp = NoEmpennage
    /\ fus = NoFuselage
    /\ cg = NoCg
    /\ locals = <<>>
    /\ results = <<>>
    /\ (InitInteractive \/ InitBatch)

Next ==
    \/ AirfoilInput
    \/ GetFloat
    \/ KeyboardInterrupt
    \/ DesignWing
    \/ HsGeometry
    \/ VsGeometry
    \/ DesignEmpennage
    \/ DesignFuselage
    \/ CgAndStaticMargin
    \/ ExportText
    \/ ExportPdf
    \/ LoadInput
    \/ Main
    \/ PrintResults
    \/ ToCsv
    \/ PlotLiftCurve
    \/ PlotDragPolar
    \/ PlotCgVsNp
    \/ GeneratePdf

Spec == Init /\ [][Next]_vars


\* ------------------------------------------------------------------------
\* Properties
\* ------------------------------------------------------------------------

\* The interactive run has computed the wing; the batch run has computed
\* its results.
WingDesigned == variant = "interactive" /\ wing # NoWing
BatchComputed == variant = "batch" /\ Len(results) > 0

\* A wing input the geometry formulas cannot take: a zero span, a zero
\* aspect ratio, or a taper ratio that is not greater than zero.
Degenerate(span, AR, taper_ratio) ==
    span = I(0) \/ AR = I(0) \/ ~Gt(taper_ratio, I(0))

\* C1: in both variants a zero span, a zero aspect ratio or a taper ratio
\* that is not positive is rejected before any formula is evaluated: the
\* wing arithmetic is never reached with such a value, no run ends in a
\* division by zero, and no wing value of the output is infinite or NaN.
C1_DegenerateWingRejected ==
    /\ fault # "ZeroDivisionError"
    /\ (variant = "interactive" /\ pc = "design_wing")
           => ~Degenerate(inp["span"], inp["AR"], inp["taper_ratio"])
    /\ WingDesigned => \A f \in WingFields : IsFin(wing[f])
    /\ BatchComputed
           => /\ ~Degenerate(data["wingspan"], data["aspect_ratio"], data["taper_ratio"])
              /\ IsFin(locals.S) /\ IsFin(locals.MAC)
              /\ IsFin(locals.C_root) /\ IsFin(locals.C_tip)

\* The trapezoid relations between an area, a span, a taper ratio and the
\* two chords.
Trapezoid(area, span, taper, root, tip) ==
    /\ tip = Mul(taper, root)
    /\ area = Div(Mul(span, Add(root, tip)), I(2))

\* A finite area with a positive span and a positive taper ratio.
ValidTriple(area, span, taper) ==
    /\ IsFin(area) /\ IsFin(span) /\ IsFin(taper)
    /\ Gt(span, I(0)) /\ Gt(taper, I(0))

\* C2: for the wing and for each tail surface, in both variants, every
\* finite area with a positive span and a positive taper ratio gives chords
\* with tip = taper * root and area = span * (root + tip) / 2; the wing of
\* span 1200, aspect ratio 8 and taper 0.6 has area 180000, root chord 187.5
\* and tip chord 112.5.
C2_TrapezoidChords ==
    /\ (WingDesigned /\ ValidTriple(wing.wing_area, wing.span, wing.taper_ratio))
           => Trapezoid(wing.wing_area, wing.span, wing.taper_ratio, wing.c_root, wing.c_tip)
    /\ (WingDesigned /\ wing.span = I(1200) /\ wing.AR = I(8) /\ wing.taper_ratio = Fin(6, 10))
           => /\ wing.wing_area = I(180000)
              /\ wing.c_root = Fin(375, 2)
              /\ wing.c_tip = Fin(225, 2)
    /\ (emp.HS.S # NoVal /\ ValidTriple(emp.HS.S, emp.HS.span, inp["taper_hs"]))
           => Trapezoid(emp.HS.S, emp.HS.span, inp["taper_hs"], emp.HS.root, emp.HS.tip)
    /\ (emp.VS.S # NoVal /\ ValidTriple(emp.VS.S, emp.VS.span, inp["taper_vs"]))
           => Trapezoid(emp.VS.S, emp.VS.span, inp["taper_vs"], emp.VS.root, emp.VS.tip)
    /\ (BatchComputed /\ ValidTriple(locals.S, locals.b, locals.taper_ratio))
           => Trapezoid(locals.S, locals.b, locals.taper_ratio, locals.C_root, locals.C_tip)
    /\ (BatchComputed /\ data["wingspan"] = I(1200) /\ data["aspect_ratio"] = I(8)
            /\ data["taper_ratio"] = Fin(6, 10))
           => /\ locals.S_mm2 = I(180000)
              /\ locals.C_root_mm = Fin(375, 2)
              /\ locals.C_tip_mm = Fin(225, 2)
    /\ (BatchComputed /\ ValidTriple(locals.SH, locals.b_H, locals.tail_taper_H))
           => Trapezoid(locals.SH, locals.b_H, locals.tail_taper_H,
                        locals.tail_H.C_root, locals.tail_H.C_tip)
    /\ (BatchComputed /\ ValidTriple(locals.SV, locals.b_V, locals.tail_taper_V))
           => Trapezoid(locals.SV, locals.b_V, locals.tail_taper_V,
                        locals.tail_V.C_root, locals.tail_V.C_tip)

\* The interactive run has computed the wing of the example and both tail
\* surfaces, each tapered.
C2_TaperedSurfacesComputed ==
    /\ WingDesigned
    /\ wing.span = I(1200) /\ wing.AR = I(8) /\ wing.taper_ratio = Fin(6, 10)
    /\ emp.VS.S # NoVal
    /\ ValidTriple(emp.HS.S, emp.HS.span, inp["taper_hs"]) /\ inp["taper_hs"] = Fin(1, 2)
    /\ ValidTriple(emp.VS.S, emp.VS.span, inp["taper_vs"]) /\ inp["taper_vs"] = Fin(1, 2)

StallFactors == {I(2), I(4)}

\* The stall speed is higher for a larger weight and lower for a larger wing
\* area or air density (the other arguments as main passed them).
StallSpeedFollowsWeightAreaDensity ==
    (BatchComputed /\ Gt(locals.W, I(0)))
        => \A k \in StallFactors :
               /\ Gt(stall_speed(Mul(k, locals.W), locals.rho, locals.S, locals.CLmax),
                     locals.Vstall)
               /\ Lt(stall_speed(locals.W, locals.rho, Mul(k, locals.S), locals.CLmax),
                     locals.Vstall)
               /\ Lt(stall_speed(locals.W, Mul(k, locals.rho), locals.S, locals.CLmax),
                     locals.Vstall)

\* C4: with the other three arguments held at positive values, stall_speed
\* is strictly increasing in the weight and strictly decreasing in the wing
\* area, in the air density and in CLmax.
C4_StallSpeedMonotone ==
    /\ StallSpeedFollowsWeightAreaDensity
    /\ (BatchComputed /\ Gt(locals.W, I(0)))
           => \A k \in StallFactors :
                  Lt(stall_speed(locals.W, locals.rho, locals.S, Mul(k, locals.CLmax)),
                     locals.Vstall)

\* The interactive run has returned from cg_and_static_margin.
CgComputed == variant = "interactive" /\ cg # NoCg

\* C5: for every neutral point in [25, 40] and centre of gravity in
\* [0, 100] (% MAC) the static margin stored is NP - CG, with no clamping
\* and no step in between: NP = 30 and CG = 25 give 5, and the two stored
\* positions differ by SM / 100 * MAC.
C5_StaticMarginIsDifference ==
    (/\ CgComputed
     /\ Ge(cg.NP_percent, I(25)) /\ Le(cg.NP_percent, I(40))
     /\ Ge(cg.CG_percent, I(0)) /\ Le(cg.CG_percent, I(100)))
        => /\ cg.NP_percent = inp["NP_percent"]
           /\ cg.CG_percent = inp["CG_percent"]
           /\ cg.SM_percent = Sub(cg.NP_percent, cg.CG_percent)
           /\ (cg.NP_percent = I(30) /\ cg.CG_percent = I(25)) => cg.SM_percent = I(5)
           /\ Sub(cg.NP_mm, cg.CG_mm) = Mul(Div(cg.SM_percent, I(100)), wing.MAC)

\* The run took the default neutral point 30 and a centre of gravity of 25
\* for a wing with a positive chord, and stored the margin.
C5_DefaultNeutralPointMargin ==
    /\ CgComputed
    /\ cg.NP_percent = I(30) /\ cg.CG_percent = I(25)
    /\ cg.SM_percent = I(5)
    /\ IsFin(wing.MAC) /\ Gt(wing.MAC, I(0))

\* The advisories on the console.
PrintedAdvisories == {console[i].tag : i \in 1..Len(console)} \cap AdvisoryTags

\* The advisory bands for a static margin SM and the advisories printed.
AdvisoryBands(SM, printed) ==
    /\ Cardinality(printed) <= 1
    /\ ("WARNING: unstable" \in printed) <=> Le(SM, I(0))
    /\ ("NOTE: low" \in printed) <=> (Gt(SM, I(0)) /\ Lt(SM, I(5)))
    /\ ("NOTE: sluggish" \in printed) <=> Gt(SM, I(15))
    /\ (printed = {}) <=> (Ge(SM, I(5)) /\ Le(SM, I(15)))

\* The bands hold whenever the static margin is a number.
AdvisoryBandsOfNumbers ==
    (CgComputed /\ ~IsNaN(cg.SM_percent)) => AdvisoryBands(cg.SM_percent, PrintedAdvisories)

\* C6: a run prints at most one advisory, decided by the static margin
\* alone: unstable when SM <= 0, low when 0 < SM < 5, sluggish when SM > 15,
\* none exactly when 5 <= SM <= 15; the record returned is the one computed.
C6_AdvisoryBands ==
    CgComputed
        => /\ AdvisoryBands(cg.SM_percent, PrintedAdvisories)
           /\ cg = cg_and_static_margin(wing.MAC, inp["NP_percent"], inp["CG_percent"])

\* C7: get_float returns only accepted values: a value returned, the
\* default included, satisfies min <= value <= max for each bound given.
C7_ReturnedWithinBounds ==
    \A p \in PromptNames :
        inp[p] # NoVal
            => /\ Prompt(p).min # NoVal => Ge(inp[p], Prompt(p).min)
               /\ Prompt(p).max # NoVal => Le(inp[p], Prompt(p).max)

\* Every number returned is within the bounds given, and a rejected entry
\* leaves the prompt and the values read so far as they were.
ReturnedNumbersWithinBounds ==
    \A p \in PromptNames :
        (inp[p] # NoVal /\ ~IsNaN(inp[p]))
            => /\ Prompt(p).min # NoVal => Ge(inp[p], Prompt(p).min)
               /\ Prompt(p).max # NoVal => Le(inp[p], Prompt(p).max)

\* load_input returned the file's record with every value kept and every
\* absent key that has a default filled from DEFAULTS.
LoadedAsDocumented ==
    /\ \A key \in Keys : input_file[key] # NoVal => data[key] = input_file[key]
    /\ \A key \in DefaultKeys : input_file[key] = NoVal => data[key] = DEFAULTS[key]

\* C8: a key missing from the configuration is never an error: load_input
\* keeps every value present and fills each of the 8 keys that have a default,
\* and main then completes without a missing-key failure.
C8_MissingKeyNeverAnError ==
    /\ fault # "KeyError"
    /\ (variant = "batch" /\ pc # "load_input") => LoadedAsDocumented

\* C8, amended: load_input keeps every value present and fills each of the
\* 8 keys that have a default, and main fails on a missing key only when the
\* file lacks wingspan or aspect_ratio, the two keys without a default.
C8_OnlyRequiredKeysCanBeMissing ==
    /\ (variant = "batch" /\ pc # "load_input") => LoadedAsDocumented
    /\ fault = "KeyError"
           => (input_file["wingspan"] = NoVal \/ input_file["aspect_ratio"] = NoVal)

\* A batch run whose file gives only wingspan and aspect_ratio has ended
\* with the 8 defaults in its record.
C8_DefaultsFilledRunCompleted ==
    /\ variant = "batch"
    /\ pc = "done"
    /\ input_file["wingspan"] = I(1200) /\ input_file["aspect_ratio"] = I(8)
    /\ \A key \in DefaultKeys : input_file[key] = NoVal /\ data[key] = DEFAULTS[key]
    /\ Cardinality(DefaultKeys) = 8

BatchFiles == {"results.csv", "lift_curve.png", "drag_polar.png", "cg_vs_np.png",
               "design_report.pdf"}

\* The record holds a positive number for every quantity main computes with.
ValidInput(d) ==
    \A key \in {"wingspan", "aspect_ratio", "weight", "cl_max", "taper_ratio",
                "tail_taper_H", "tail_taper_V"} :
        IsFin(d[key]) /\ Gt(d[key], I(0))

\* C9: when the batch input is invalid (a value missing, not a number or
\* out of range, a negative weight for one), no output file is written.
C9_InvalidInputWritesNothing ==
    (variant = "batch" /\ \E f \in BatchFiles : files[f].st # "absent")
        => ValidInput(data)

Range(seq) == {seq[i] : i \in 1..Len(seq)}

\* The batch run has reached the statement step, or failed in it or after it.
Position(step) == CHOOSE i \in 1..Len(BatchFlow) : BatchFlow[i] = step
BatchAt(step) ==
    /\ variant = "batch"
    /\ Position(IF pc = "crashed" THEN raised_at ELSE pc) >= Position(step)

\* The interactive run has reached, or failed in, export_text or export_pdf.
ExportsBegun ==
    /\ variant = "interactive"
    /\ (pc \in {"export_text", "export_pdf", "done"}
        \/ raised_at \in {"export_text", "export_pdf"})
PdfExportBegun ==
    /\ variant = "interactive"
    /\ (pc \in {"export_pdf", "done"} \/ raised_at = "export_pdf")

Complete(body) == [st |-> "complete", body |-> body]

\* C10: in both variants every computed value is on the console before the
\* first export begins, and an export that fails leaves every file written
\* before it complete and unchanged.
C10_ResultsSurviveExportFailure ==
    /\ ExportsBegun
           => /\ Range(WingLines(wing)) \subseteq Range(console)
              /\ Range(EmpennageLines(emp)) \subseteq Range(console)
              /\ Range(FuselageLines(fus)) \subseteq Range(console)
              /\ Range(CgLines(cg, wing.MAC)) \subseteq Range(console)
    /\ (variant = "interactive" /\ pc = "export_text") => files = NoFiles
    /\ PdfExportBegun
           => files["rc_plane_design.txt"] = Complete(TextBody(wing, emp, fus, cg))
    /\ BatchAt("to_csv") => Range(results) \subseteq Range(console)
    /\ (variant = "batch" /\ pc = "to_csv") => files = NoFiles
    /\ BatchAt("plot_lift_curve") => files["results.csv"] = Complete(results)
    /\ BatchAt("plot_drag_polar")
           => files["lift_curve.png"] = Complete(<< Line("CLmax", locals.CLmax) >>)
    /\ BatchAt("plot_cg_vs_np") => files["drag_polar.png"].st = "complete"
    /\ BatchAt("generate_pdf") => files["cg_vs_np.png"].st = "complete"

\* export_pdf has failed after export_text wrote its file.
C10_PdfExportFailedAfterText ==
    /\ variant = "interactive"
    /\ pc = "crashed" /\ raised_at = "export_pdf"
    /\ files["rc_plane_design.pdf"].st = "partial"
    /\ files["rc_plane_design.txt"].st = "complete"

\* The mean aerodynamic chord of a trapezoidal wing from its root chord and
\* taper ratio, and from its area, span and taper ratio.
TrapezoidMACOfRoot(root, taper) ==
    Div(Mul(Mul(Fin(2, 3), root), Add(Add(I(1), taper), Sq(taper))), Add(I(1), taper))

TrapezoidMACOfArea(area, span, taper) ==
    Mul(Div(Mul(I(4), area), Mul(I(3), span)),
        Div(Add(Add(I(1), taper), Sq(taper)), Sq(Add(I(1), taper))))

\* A wing the formulas are stated for: finite, span > 0, AR > 0, taper > 0.
ProperWing(span, AR, taper) ==
    /\ IsFin(span) /\ IsFin(AR) /\ IsFin(taper)
    /\ Gt(span, I(0)) /\ Gt(AR, I(0)) /\ Gt(taper, I(0))

\* design_wing returns the trapezoidal MAC, in both of its forms.
DesignWingMACIsTrapezoidal ==
    (WingDesigned /\ ProperWing(wing.span, wing.AR, wing.taper_ratio))
        => /\ wing.MAC = TrapezoidMACOfRoot(wing.c_root, wing.taper_ratio)
           /\ wing.MAC = TrapezoidMACOfArea(wing.wing_area, wing.span, wing.taper_ratio)

\* C11: for every span > 0, aspect ratio > 0 and taper ratio > 0 the MAC
\* returned is (2/3) * root * (1 + t + t^2) / (1 + t), which equals
\* (4 * area) / (3 * span) * (1 + t + t^2) / (1 + t)^2, in every wing
\* computation: design_wing and calc_wing_geometry agree on the MAC of the
\* same span, aspect ratio and taper ratio.
C11_TrapezoidalMACEverywhere ==
    /\ DesignWingMACIsTrapezoidal
    /\ (BatchComputed /\ ProperWing(locals.b, locals.AR, locals.taper_ratio))
           => /\ locals.MAC = TrapezoidMACOfRoot(locals.C_root, locals.taper_ratio)
              /\ locals.MAC = TrapezoidMACOfArea(locals.S, locals.b, locals.taper_ratio)
              /\ locals.MAC_mm
                     = design_wing(data["wingspan"], data["aspect_ratio"],
                                   data["taper_ratio"]).MAC

\* The batch MAC is the trapezoidal one whenever the taper ratio is 1.
BatchMACOfRectangularWing ==
    (BatchComputed /\ ProperWing(locals.b, locals.AR, locals.taper_ratio)
         /\ locals.taper_ratio = I(1))
        => /\ locals.MAC = TrapezoidMACOfRoot(locals.C_root, locals.taper_ratio)
           /\ locals.MAC_mm
                  = design_wing(data["wingspan"], data["aspect_ratio"],
                                data["taper_ratio"]).MAC

\* design_empennage has returned its record.
EmpennageReturned == variant = "interactive" /\ emp.VS.control # NoVal

\* x is between lo% and hi% of base.
BetweenPercent(x, lo, hi, base) ==
    /\ Ge(x, Mul(Fin(lo, 100), base))
    /\ Le(x, Mul(Fin(hi, 100), base))

\* The four areas of the record are within their ranges.
FractionsInRange ==
    /\ BetweenPercent(emp.HS.S, 18, 20, wing.wing_area)
    /\ BetweenPercent(emp.VS.S, 9, 10, wing.wing_area)
    /\ BetweenPercent(emp.HS.control, 25, 50, emp.HS.S)
    /\ BetweenPercent(emp.VS.control, 25, 50, emp.VS.S)

\* Each area is the percentage entered of its reference area: no clamping.
FractionsAsEntered ==
    /\ emp.HS.percent = inp["percent_hs"]
    /\ emp.HS.S = Mul(Div(inp["percent_hs"], I(100)), wing.wing_area)
    /\ emp.VS.percent = inp["percent_vs"]
    /\ emp.VS.S = Mul(Div(inp["percent_vs"], I(100)), wing.wing_area)
    /\ emp.HS.percent_control = inp["percent_elev"]
    /\ emp.HS.control = Mul(Div(inp["percent_elev"], I(100)), emp.HS.S)
    /\ emp.VS.percent_control = inp["percent_rudder"]
    /\ emp.VS.control = Mul(Div(inp["percent_rudder"], I(100)), emp.VS.S)

\* C12: in every record design_empennage returns the HS area is between 18%
\* and 20% of the wing area, the VS area between 9% and 10% of it, the
\* elevator between 25% and 50% of the HS area and the rudder between 25% and
\* 50% of the VS area, each computed from exactly the percentage entered.
C12_TailFractionsInRange ==
    EmpennageReturned => (FractionsInRange /\ FractionsAsEntered)

\* The ranges hold whenever the four percentages entered are numbers, and
\* the areas are always computed from the percentages entered.
TailFractionsOfNumbers ==
    EmpennageReturned
        => /\ FractionsAsEntered
           /\ (\A p \in {"percent_hs", "percent_vs", "percent_elev", "percent_rudder"} :
                   ~IsNaN(inp[p])) => FractionsInRange
=============================================================================
